---- MODULE Spec2Model ----
(***************************************************************************)
(* Model of string_replace.py: the brand replacement script for Android   *)
(* strings.xml files.  Text is modelled character by character: a text is *)
(* a sequence of one-character strings, and every regular expression and  *)
(* str.replace of the script is computed on those characters the way the  *)
(* Python re module and str.replace compute it (leftmost match first,     *)
(* non-overlapping, scanning resumes after the end of a match).           *)
(***************************************************************************)
EXTENDS Integers, Sequences, FiniteSets, TLC

VARIABLES
    files,          \* process_string_files: the list glob.glob returned
    disk,           \* the content of each file on disk
    disk0,          \* the content of each file before the run
    idx,            \* position of the for loop in files (0 before the loop)
    success_count,  \* process_string_files: success_count
    pc,             \* where the program is
    content,        \* process_file: the local variable content
    calls,          \* the file paths process_file was called with, in order
    returns,        \* the value each of those calls returned
    raised,         \* the exception raised in each of those calls, "none" if none
    wopens,         \* how often each file was opened with mode 'w'
    input,          \* argument of a function called on its own
    output,         \* what that function returned
    prev,           \* what the call before that one returned
    runs            \* how many calls have returned

vars == << files, disk, disk0, idx, success_count, pc, content, calls,
           returns, raised, wopens, input, output, prev, runs >>

progVars == << files, disk, disk0, idx, success_count, pc, content, calls,
               returns, raised, wopens >>

callVars == << input, output, prev, runs >>

-----------------------------------------------------------------------------
(* Text primitives *)

\* A Python str as the sequence of its characters.
Chars(s) == [i \in 1 .. Len(s) |-> SubSeq(s, i, i)]

\* Concatenation of a sequence of Python strs, as a text.
RECURSIVE Concat(_)
Concat(ss) == IF ss = << >> THEN << >> ELSE Chars(Head(ss)) \o Concat(Tail(ss))

\* The sequences of at most n elements of T.
SeqsUpTo(T, n) == UNION { [1 .. k -> T] : k \in 0 .. n }

\* s[p:] starts with pat (positions count from 1).
StartsWith(s, p, pat) ==
    /\ p >= 1
    /\ p + Len(pat) - 1 <= Len(s)
    /\ SubSeq(s, p, p + Len(pat) - 1) = pat

\* str.find: the first position >= p where pat occurs in s, 0 when there is none.
FindFrom(s, pat, p) ==
    LET hits == { q \in p .. Len(s) - Len(pat) + 1 :
                    SubSeq(s, q, q + Len(pat) - 1) = pat }
    IN  IF hits = {} THEN 0
        ELSE CHOOSE q \in hits : \A r \in hits : q <= r

\* pat in s
Contains(s, pat) == FindFrom(s, pat, 1) /= 0

\* str.replace(old, new) on s[p:]: every non-overlapping occurrence, left to right.
RECURSIVE StrReplaceFrom(_, _, _, _)
StrReplaceFrom(s, old, new, p) ==
    LET q == FindFrom(s, old, p)
    IN  IF q = 0 THEN SubSeq(s, p, Len(s))
        ELSE SubSeq(s, p, q - 1) \o new \o StrReplaceFrom(s, old, new, q + Len(old))

StrReplace(s, old, new) == StrReplaceFrom(s, old, new, 1)

\* The lower-case letter of each ASCII upper-case letter (re.IGNORECASE folds case).
UpperToLower ==
    [A |-> "a", B |-> "b", C |-> "c", D |-> "d", E |-> "e", F |-> "f", G |-> "g",
     H |-> "h", I |-> "i", J |-> "j", K |-> "k", L |-> "l", M |-> "m", N |-> "n",
     O |-> "o", P |-> "p", Q |-> "q", R |-> "r", S |-> "s", T |-> "t", U |-> "u",
     V |-> "v", W |-> "w", X |-> "x", Y |-> "y", Z |-> "z"]

Lower(c) == IF c \in DOMAIN UpperToLower THEN UpperToLower[c] ELSE c

LowerText(s) == [i \in 1 .. Len(s) |-> Lower(s[i])]

\* re.sub(pattern, replacement, s, flags=re.IGNORECASE) for a pattern of literal
\* characters and a replacement template without group references: every
\* non-overlapping case-insensitive occurrence of the pattern, left to right, is
\* replaced by the template's text.  ls and lpat are s and the pattern case-folded.
RECURSIVE ReSubLiteralFrom(_, _, _, _, _)
ReSubLiteralFrom(s, ls, lpat, repl, p) ==
    LET q == FindFrom(ls, lpat, p)
    IN  IF q = 0 THEN SubSeq(s, p, Len(s))
        ELSE SubSeq(s, p, q - 1) \o repl
                 \o ReSubLiteralFrom(s, ls, lpat, repl, q + Len(lpat))

ReSubIgnoreCase(pat, repl, s) ==
    ReSubLiteralFrom(s, LowerText(s), LowerText(pat), repl, 1)

-----------------------------------------------------------------------------
(* The string-entry pattern r'(<string[^>]*>)(.*?)(</string>)' with re.DOTALL *)

OpenLiteral == Chars("<string")
CloseLiteral == Chars("</string>")
Gt == Chars(">")
NoMatch == [start |-> 0, gt |-> 0, close |-> 0]

\* The leftmost match starting at or after pos.  A match starts at an occurrence
\* of '<string'; '[^>]*>' runs to the first '>' after it, and the lazy '.*?'
\* (which crosses newlines) runs to the first '</string>' after that '>'.
\* start: where group 1 starts; gt: its last character; close: where group 3 starts.
RECURSIVE NextStringEntry(_, _)
NextStringEntry(s, pos) ==
    LET p == FindFrom(s, OpenLiteral, pos)
        g == FindFrom(s, Gt, p + Len(OpenLiteral))
        c == FindFrom(s, CloseLiteral, g + 1)
    IN  IF p = 0 THEN NoMatch
        ELSE IF g /= 0 /\ c /= 0 THEN [start |-> p, gt |-> g, close |-> c]
        ELSE NextStringEntry(s, p + 1)

\* All the matches re.sub finds: each search resumes after the previous match.
RECURSIVE StringEntriesFrom(_, _)
StringEntriesFrom(s, pos) ==
    LET m == NextStringEntry(s, pos)
    IN  IF m.start = 0 THEN << >>
        ELSE << m >> \o StringEntriesFrom(s, m.close + Len(CloseLiteral))

StringEntries(s) == StringEntriesFrom(s, 1)

\* The three groups of a match m in s.
Group1(s, m) == SubSeq(s, m.start, m.gt)
Group2(s, m) == SubSeq(s, m.gt + 1, m.close - 1)
Group3(s, m) == SubSeq(s, m.close, m.close + Len(CloseLiteral) - 1)

\* re.sub(string-entry pattern, callback, s, flags=re.DOTALL): the text outside
\* the matches is copied, match k is replaced by repl[k], what the callback
\* returned for it.
ReSubStringEntries(s, repl) ==
    LET ms == StringEntries(s)
        endOf(k) == IF k = 0 THEN 0 ELSE ms[k].close + Len(CloseLiteral) - 1
        build[k \in 0 .. Len(ms)] ==
            IF k = 0 THEN << >>
            ELSE build[k - 1]
                   \o SubSeq(s, endOf(k - 1) + 1, ms[k].start - 1)
                   \o repl[k]
    IN  build[Len(ms)] \o SubSeq(s, endOf(Len(ms)) + 1, Len(s))

-----------------------------------------------------------------------------
(* replace_brand_names *)

Firefox == Chars("Firefox")
Waterfox == Chars("Waterfox")
Mozilla == Chars("Mozilla")
BrowserWorks == Chars("BrowserWorks")
MozillaAccount == Chars("Mozilla Account")

\* replace_in_string without the 'Mozilla Account' test.
replace_in_string_unguarded(start_tag, string_content, end_tag) ==
    start_tag
      \o StrReplace(StrReplace(string_content, Firefox, Waterfox),
                    Mozilla, BrowserWorks)
      \o end_tag

\* The callback of replace_brand_names, on the three groups of a match.
replace_in_string(start_tag, string_content, end_tag) ==
    LET c1 == StrReplace(string_content, Firefox, Waterfox)
        c2 == IF ~Contains(c1, MozillaAccount)
              THEN StrReplace(c1, Mozilla, BrowserWorks)
              ELSE c1
    IN  start_tag \o c2 \o end_tag

replace_brand_names(text) ==
    LET ms == StringEntries(text)
    IN  ReSubStringEntries(text,
            [k \in 1 .. Len(ms) |->
                replace_in_string(Group1(text, ms[k]), Group2(text, ms[k]),
                                  Group3(text, ms[k]))])

-----------------------------------------------------------------------------
(* fix_format_specifiers *)

TrackersName == "trackers_blocked_panel_categorical_num_trackers_blocked"
FormatOpenLiteral == Chars("<string name=\"" \o TrackersName \o "\"")
PercentS == Chars("%s")
PercentD == Chars("%d")
Percent == Chars("%")
NoFormatMatch == [start |-> 0, gt |-> 0, pd |-> 0]

\* The leftmost match of
\*   (<string name="trackers_..."[^>]*>)%s([^%]*?)%d(</string>)
\* starting at or after pos.  After the literal opening, '[^>]*>' runs to the
\* first '>'; '%s' must follow it at once; the lazy '[^%]*?' (any character but
\* '%', newlines and markup included) can only end at the first '%' after the
\* '%s', where '%d</string>' must stand.
\* start: where group 1 starts; gt: its last character; pd: where '%d' starts.
RECURSIVE NextFormatMatch(_, _)
NextFormatMatch(s, pos) ==
    LET p == FindFrom(s, FormatOpenLiteral, pos)
        g == FindFrom(s, Gt, p + Len(FormatOpenLiteral))
        k == FindFrom(s, Percent, g + 1 + Len(PercentS))
    IN  IF p = 0 THEN NoFormatMatch
        ELSE IF /\ g /= 0
                /\ StartsWith(s, g + 1, PercentS)
                /\ k /= 0
                /\ StartsWith(s, k, PercentD \o CloseLiteral)
             THEN [start |-> p, gt |-> g, pd |-> k]
        ELSE NextFormatMatch(s, p + 1)

\* The callback of fix_format_specifiers, on the three groups of a match.
replace_format_specifiers(start_tag, middle_text, end_tag) ==
    start_tag \o Chars("%1$s") \o middle_text \o Chars("%2$d") \o end_tag

\* re.sub(pattern, replace_format_specifiers, content) from position pos on.
RECURSIVE FormatSubFrom(_, _)
FormatSubFrom(s, pos) ==
    LET m == NextFormatMatch(s, pos)
        last == m.pd + Len(PercentD) + Len(CloseLiteral) - 1
    IN  IF m.start = 0 THEN SubSeq(s, pos, Len(s))
        ELSE SubSeq(s, pos, m.start - 1)
               \o replace_format_specifiers(
                      SubSeq(s, m.start, m.gt),
                      SubSeq(s, m.gt + 1 + Len(PercentS), m.pd - 1),
                      SubSeq(s, m.pd + Len(PercentD), last))
               \o FormatSubFrom(s, last + 1)

fix_format_specifiers(text) == FormatSubFrom(text, 1)

-----------------------------------------------------------------------------
(* fix_apostrophes *)

\* apostrophe_patterns: (pattern, replacement template) in list order.  In a
\* template the two characters backslash, apostrophe stand for themselves
\* (re leaves an escape it does not know as it is), and the letters are the
\* template's own.
apostrophe_patterns ==
    << << "BrowserWorks's", "BrowserWorks\\'s" >>,
       << "you're", "you\\'re" >>,
       << "you'll", "you\\'ll" >>,
       << "we're", "we\\'re" >>,
       << "we'll", "we\\'ll" >>,
       << "they're", "they\\'re" >>,
       << "they'll", "they\\'ll" >>,
       << "it's", "it\\'s" >>,
       << "that's", "that\\'s" >>,
       << "what's", "what\\'s" >>,
       << "here's", "here\\'s" >>,
       << "there's", "there\\'s" >>,
       << "let's", "let\\'s" >>,
       << "don't", "don\\'t" >>,
       << "doesn't", "doesn\\'t" >>,
       << "won't", "won\\'t" >>,
       << "can't", "can\\'t" >>,
       << "couldn't", "couldn\\'t" >>,
       << "wouldn't", "wouldn\\'t" >>,
       << "shouldn't", "shouldn\\'t" >>,
       << "mustn't", "mustn\\'t" >>,
       << "haven't", "haven\\'t" >>,
       << "hasn't", "hasn\\'t" >>,
       << "hadn't", "hadn\\'t" >>,
       << "isn't", "isn\\'t" >>,
       << "wasn't", "wasn\\'t" >>,
       << "weren't", "weren\\'t" >>,
       << "aren't", "aren\\'t" >> >>

\* The loop with one more rule at the end of the list, for any possessive.
RECURSIVE ApplyRulesAndPossessive(_, _, _)
ApplyRulesAndPossessive(rules, k, string_content) ==
    IF string_content = << >> THEN string_content
    ELSE IF k > Len(rules)
         THEN ReSubIgnoreCase(Chars("'s"), Chars("\\'s"), string_content)
    ELSE ApplyRulesAndPossessive(rules, k + 1,
             ReSubIgnoreCase(Chars(rules[k][1]), Chars(rules[k][2]),
                             string_content))

\* The for loop of fix_apostrophes_in_string: rule k applied to the result of
\* rules 1 .. k-1, each a pass of re.sub over the whole span.  (No rule matches
\* in an empty span, so the loop leaves it as it is.)
RECURSIVE ApplyRules(_, _, _)
ApplyRules(rules, k, string_content) ==
    IF k > Len(rules) \/ string_content = << >> THEN string_content
    ELSE ApplyRules(rules, k + 1,
                    ReSubIgnoreCase(Chars(rules[k][1]), Chars(rules[k][2]),
                                    string_content))

\* The callback of fix_apostrophes, on the three groups of a match.
fix_apostrophes_in_string(start_tag, string_content, end_tag) ==
    start_tag \o ApplyRules(apostrophe_patterns, 1, string_content) \o end_tag

fix_apostrophes(text) ==
    LET ms == StringEntries(text)
    IN  ReSubStringEntries(text,
            [k \in 1 .. Len(ms) |->
                fix_apostrophes_in_string(Group1(text, ms[k]),
                                          Group2(text, ms[k]),
                                          Group3(text, ms[k]))])

-----------------------------------------------------------------------------
(* process_file, steps 1 to 4 *)

\* content.replace('">>', '">')
cleanup(text) == StrReplace(text, Chars("\">>"), Chars("\">"))

\* The four passes in the order process_file applies them.
transform(text) ==
    cleanup(fix_apostrophes(fix_format_specifiers(replace_brand_names(text))))

-----------------------------------------------------------------------------
(* Inputs of the functions when each is called on its own *)

MaxBrandTokens == 4
MaxElems == 2
MaxFmtTokens == 4
MaxPairTokens == 2
MaxAposTokens == 4
MaxPipeTokens == 3

StartTag == Chars("<string name=\"x\">")
EndTag == CloseLiteral

\* Content spans for replace_in_string.
BrandTokens == { "Firefox", "Mozilla", " Account", " " }
BrandSpans == { Concat(ts) : ts \in SeqsUpTo(BrandTokens, MaxBrandTokens) }

\* File texts for replace_brand_names: string entries, string arrays, other
\* elements and comments, brand names in their content and in their attributes.
BrandContents == { "Firefox", "Mozilla", "Mozilla Account on Mozilla" }
BrandWrappers ==
    { << "<string name=\"Firefox\">", "</string>" >>,
      << "<string-array name=\"a\"><item>", "</item></string-array>" >>,
      << "<plurals name=\"Mozilla\"><item>", "</item></plurals>" >>,
      << "<!-- ", " -->" >> }
BrandElems == { w[1] \o c \o w[2] : w \in BrandWrappers, c \in BrandContents }
BrandTexts == { Concat(es) : es \in SeqsUpTo(BrandElems, MaxElems) }

\* File texts for fix_format_specifiers: one entry or two, named as the rule
\* names it or otherwise, with format specifiers in their content.
FormatNames == { TrackersName, TrackersName \o "_2", "other" }
FormatTokens == { "%s", ": ", "%d", "x" }
FormatEntries(n) ==
    { Chars("<string name=\"" \o nm \o "\">") \o Concat(ts) \o CloseLiteral :
        nm \in FormatNames, ts \in SeqsUpTo(FormatTokens, n) }
FormatTexts ==
    FormatEntries(MaxFmtTokens)
      \cup { e1 \o e2 : e1 \in FormatEntries(MaxPairTokens),
                        e2 \in FormatEntries(MaxPairTokens) }

\* Content spans for fix_apostrophes_in_string: contractions of the list in
\* either case, one inside another, escaped already or not.
AposTokens == { "'", "\\", "s", "t", "IT", "here", "Don", " " }
AposSpans == { Concat(ts) : ts \in SeqsUpTo(AposTokens, MaxAposTokens) }

\* File texts for the four passes together.
PipeNames == { TrackersName, "x" }
PipeTokens == { ">", "%s: %d", "Firefox", "isn't" }
PipeTexts ==
    { Chars("<string name=\"" \o nm \o "\">") \o Concat(ts) \o CloseLiteral :
        nm \in PipeNames, ts \in SeqsUpTo(PipeTokens, MaxPipeTokens) }

-----------------------------------------------------------------------------
(* A function called on its own: the program itself is not running *)

Idle ==
    /\ files = << >>
    /\ disk = << >>
    /\ disk0 = << >>
    /\ idx = 0
    /\ success_count = 0
    /\ pc = "idle"
    /\ content = << >>
    /\ calls = << >>
    /\ returns = << >>
    /\ raised = << >>
    /\ wopens = << >>

InitCall(inputs) ==
    /\ Idle
    /\ input \in inputs
    /\ output = << >>
    /\ prev = << >>
    /\ runs = 0

Return(value) ==
    /\ output' = value
    /\ prev' = output
    /\ runs' = runs + 1
    /\ UNCHANGED << input >>
    /\ UNCHANGED progVars

\* replace_in_string(match) on a match whose content span is input.
CallReplaceInString ==
    /\ runs = 0
    /\ Return(replace_in_string(StartTag, input, EndTag))

\* replace_brand_names(input)
CallReplaceBrandNames ==
    /\ runs = 0
    /\ Return(replace_brand_names(input))

\* fix_format_specifiers(input)
CallFixFormatSpecifiers ==
    /\ runs = 0
    /\ Return(fix_format_specifiers(input))

\* fix_apostrophes_in_string(match) on a match whose content span is input.
CallFixApostrophesInString ==
    /\ runs = 0
    /\ Return(fix_apostrophes_in_string(StartTag, input, EndTag))

\* The four passes of process_file on the text a file holds: first on input,
\* then, when the script is run again, on what the first run wrote.
MaxRuns == 2
CallTransform ==
    /\ runs < MaxRuns
    /\ Return(transform(IF runs = 0 THEN input ELSE output))

SpecBrandSpan == InitCall(BrandSpans) /\ [][CallReplaceInString]_vars
SpecBrand == InitCall(BrandTexts) /\ [][CallReplaceBrandNames]_vars
SpecFormat == InitCall(FormatTexts) /\ [][CallFixFormatSpecifiers]_vars
SpecApos == InitCall(AposSpans) /\ [][CallFixApostrophesInString]_vars
SpecPipeline == InitCall(PipeTexts) /\ [][CallTransform]_vars

-----------------------------------------------------------------------------
(* The program: main, process_string_files and process_file *)

MaxFiles == 2

\* What the files hold before the run.
FileTexts ==
    { Chars("<string name=\"x\">Firefox and Mozilla are great</string>"),
      Chars("<string name=\"" \o TrackersName \o "\">%s: %d</string>"),
      Chars("<string name=\"z\">>Firefox isn't slow</string>") }

\* The orders in which glob.glob can list the paths 1 .. n.
Orders(n) == { f \in [1 .. n -> 1 .. n] : \A i, j \in 1 .. n : i /= j => f[i] /= f[j] }

Init ==
    /\ \E n \in 0 .. MaxFiles :
         /\ files \in Orders(n)
         /\ disk \in [1 .. n -> FileTexts]
         /\ wopens = [f \in 1 .. n |-> 0]
    /\ disk0 = disk
    /\ idx = 0
    /\ success_count = 0
    /\ pc = "start"
    /\ content = << >>
    /\ calls = << >>
    /\ returns = << >>
    /\ raised = << >>
    /\ input = << >>
    /\ output = << >>
    /\ prev = << >>
    /\ runs = 0

\* The file process_file is working on.
file_path == files[idx]

\* The exceptions the statements of process_file raise.
ReadErrors == { "OSError", "UnicodeDecodeError" }
PassErrors == { "MemoryError" }
WriteErrors == { "OSError" }
Interrupts == { "KeyboardInterrupt" }

\* 'except Exception' catches the subclasses of Exception; KeyboardInterrupt
\* derives from BaseException only.
CaughtByExceptException(e) ==
    e \in { "OSError", "UnicodeDecodeError", "MemoryError" }

\* The file opened with a mode that truncates it.
OpenForReadingTruncates(d, f) == [d EXCEPT ![f] = << >>]

\* open(file_path, 'r') leaves the file as it is.
OpenForReading(d, f) == d

\* open(file_path, 'w') truncates the file.
OpenForWriting(d, f) == [d EXCEPT ![f] = << >>]

\* What a write that fails part of the way can leave in the file.
PartialWrites(text) == { SubSeq(text, 1, k) : k \in { 0, Len(text) \div 2 } }

\* The count raised whatever process_file returned.
CountEveryCall(count, result) == count + 1

\* 'if process_file(file_path): success_count += 1'
CountSuccess(count, result) == IF result THEN count + 1 ELSE count

\* Where the program goes when an exception e leaves the try block.
AfterRaise(e) == IF CaughtByExceptException(e) THEN "except" ELSE "crashed"

Raise(e) ==
    /\ raised' = [raised EXCEPT ![Len(raised)] = e]
    /\ pc' = AfterRaise(e)

\* process_string_files up to the loop: glob, 'if not files: return'.
Glob ==
    /\ pc = "start"
    /\ pc' = IF files = << >> THEN "done" ELSE "loop"
    /\ UNCHANGED << files, disk, disk0, idx, success_count, content, calls,
                    returns, raised, wopens >>
    /\ UNCHANGED callVars

\* 'for file_path in files': the next file, and the call process_file(file_path).
CallProcessFile ==
    /\ pc = "loop"
    /\ idx < Len(files)
    /\ idx' = idx + 1
    /\ calls' = Append(calls, files[idx + 1])
    /\ raised' = Append(raised, "none")
    /\ pc' = "read"
    /\ UNCHANGED << files, disk, disk0, success_count, content, returns, wopens >>
    /\ UNCHANGED callVars

\* The loop is over: the summary is printed and process_string_files returns.
Summary ==
    /\ pc = "loop"
    /\ idx = Len(files)
    /\ pc' = "done"
    /\ UNCHANGED << files, disk, disk0, idx, success_count, content, calls,
                    returns, raised, wopens >>
    /\ UNCHANGED callVars

\* 'with open(file_path, 'r', encoding='utf-8') as f: content = f.read()'
Read ==
    /\ pc = "read"
    /\ disk' = OpenForReading(disk, file_path)
    /\ content' = disk'[file_path]
    /\ pc' = "brand"
    /\ UNCHANGED << files, disk0, idx, success_count, calls, returns, raised,
                    wopens >>
    /\ UNCHANGED callVars

\* The file cannot be opened or read, or is not UTF-8.
ReadFails ==
    /\ pc = "read"
    /\ \E e \in ReadErrors : Raise(e)
    /\ UNCHANGED << files, disk, disk0, idx, success_count, content, calls,
                    returns, wopens >>
    /\ UNCHANGED callVars

\* 'content = replace_brand_names(content)'
ReplaceBrandNames ==
    /\ pc = "brand"
    /\ content' = replace_brand_names(content)
    /\ pc' = "format"
    /\ UNCHANGED << files, disk, disk0, idx, success_count, calls, returns,
                    raised, wopens >>
    /\ UNCHANGED callVars

\* 'content = fix_format_specifiers(content)'
FixFormatSpecifiers ==
    /\ pc = "format"
    /\ content' = fix_format_specifiers(content)
    /\ pc' = "apos"
    /\ UNCHANGED << files, disk, disk0, idx, success_count, calls, returns,
                    raised, wopens >>
    /\ UNCHANGED callVars

\* 'content = fix_apostrophes(content)'
FixApostrophes ==
    /\ pc = "apos"
    /\ content' = fix_apostrophes(content)
    /\ pc' = "cleanup"
    /\ UNCHANGED << files, disk, disk0, idx, success_count, calls, returns,
                    raised, wopens >>
    /\ UNCHANGED callVars

\* 'content = content.replace('">>','">')'
Cleanup ==
    /\ pc = "cleanup"
    /\ content' = cleanup(content)
    /\ pc' = "open_w"
    /\ UNCHANGED << files, disk, disk0, idx, success_count, calls, returns,
                    raised, wopens >>
    /\ UNCHANGED callVars

\* One of the four passes raises.
PassFails ==
    /\ pc \in { "brand", "format", "apos", "cleanup" }
    /\ \E e \in PassErrors : Raise(e)
    /\ UNCHANGED << files, disk, disk0, idx, success_count, content, calls,
                    returns, wopens >>
    /\ UNCHANGED callVars

\* 'with open(file_path, 'w', encoding='utf-8') as f'
OpenWrite ==
    /\ pc = "open_w"
    /\ disk' = OpenForWriting(disk, file_path)
    /\ wopens' = [wopens EXCEPT ![file_path] = @ + 1]
    /\ pc' = "write"
    /\ UNCHANGED << files, disk0, idx, success_count, content, calls, returns,
                    raised >>
    /\ UNCHANGED callVars

\* The file cannot be opened for writing.
OpenWriteFails ==
    /\ pc = "open_w"
    /\ \E e \in WriteErrors : Raise(e)
    /\ UNCHANGED << files, disk, disk0, idx, success_count, content, calls,
                    returns, wopens >>
    /\ UNCHANGED callVars

\* 'f.write(content)', the file is closed, 'return True'
Write ==
    /\ pc = "write"
    /\ disk' = [disk EXCEPT ![file_path] = content]
    /\ returns' = Append(returns, TRUE)
    /\ pc' = "returned"
    /\ UNCHANGED << files, disk0, idx, success_count, content, calls, raised,
                    wopens >>
    /\ UNCHANGED callVars

\* The write fails part of the way.
WriteFails ==
    /\ pc = "write"
    /\ \E part \in PartialWrites(content) :
         disk' = [disk EXCEPT ![file_path] = part]
    /\ \E e \in WriteErrors : Raise(e)
    /\ UNCHANGED << files, disk0, idx, success_count, content, calls, returns,
                    wopens >>
    /\ UNCHANGED callVars

\* The process is interrupted while process_file runs.
Interrupt ==
    /\ pc \in { "read", "brand", "format", "apos", "cleanup", "open_w" }
    /\ \E e \in Interrupts : Raise(e)
    /\ UNCHANGED << files, disk, disk0, idx, success_count, content, calls,
                    returns, wopens >>
    /\ UNCHANGED callVars

\* 'except Exception as e: print(...); return False'
Except ==
    /\ pc = "except"
    /\ returns' = Append(returns, FALSE)
    /\ pc' = "returned"
    /\ UNCHANGED << files, disk, disk0, idx, success_count, content, calls,
                    raised, wopens >>
    /\ UNCHANGED callVars

\* Back in the loop: 'if process_file(file_path): success_count += 1'
Returned ==
    /\ pc = "returned"
    /\ success_count' = CountSuccess(success_count, returns[Len(returns)])
    /\ pc' = "loop"
    /\ UNCHANGED << files, disk, disk0, idx, content, calls, returns, raised,
                    wopens >>
    /\ UNCHANGED callVars

Next ==
    \/ Glob
    \/ CallProcessFile
    \/ Summary
    \/ Read
    \/ ReadFails
    \/ ReplaceBrandNames
    \/ FixFormatSpecifiers
    \/ FixApostrophes
    \/ Cleanup
    \/ PassFails
    \/ OpenWrite
    \/ OpenWriteFails
    \/ Write
    \/ WriteFails
    \/ Interrupt
    \/ Except
    \/ Returned

Spec == Init /\ [][Next]_vars

-----------------------------------------------------------------------------
(* Properties *)

\* The number of places where pat occurs in s.
Count(s, pat) == Cardinality({ q \in 1 .. Len(s) : StartsWith(s, q, pat) })

\* The content span of the entry StartTag, span, EndTag that a callback returned.
SpanOf(text) == SubSeq(text, Len(StartTag) + 1, Len(text) - Len(EndTag))

IsEntry(text) ==
    /\ Len(text) >= Len(StartTag) + Len(EndTag)
    /\ StartsWith(text, 1, StartTag)
    /\ StartsWith(text, Len(text) - Len(EndTag) + 1, EndTag)

\* C1: running the four passes twice on a file text gives the same text as
\* running them once.
C1_Idempotent == runs = 2 => output = prev

\* The text outside the content of the string elements: a string element opens
\* with a tag whose name is exactly 'string' and closes with the next
\* '</string>'; a comment runs from '<!--' to '-->' and holds no elements.
IsStringTagAt(s, p) ==
    /\ StartsWith(s, p, OpenLiteral)
    /\ p + Len(OpenLiteral) <= Len(s)
    /\ s[p + Len(OpenLiteral)] \in { " ", ">" }

RECURSIVE OutsideFrom(_, _)
OutsideFrom(s, p) ==
    IF p > Len(s) THEN << >>
    ELSE IF StartsWith(s, p, Chars("<!--")) /\ FindFrom(s, Chars("-->"), p + 4) /= 0
         THEN LET e == FindFrom(s, Chars("-->"), p + 4)
              IN  SubSeq(s, p, e + 2) \o OutsideFrom(s, e + 3)
    ELSE IF /\ IsStringTagAt(s, p)
            /\ FindFrom(s, Gt, p) /= 0
            /\ FindFrom(s, CloseLiteral, FindFrom(s, Gt, p)) /= 0
         THEN LET g == FindFrom(s, Gt, p)
                  c == FindFrom(s, CloseLiteral, g)
              IN  SubSeq(s, p, g) \o CloseLiteral
                    \o OutsideFrom(s, c + Len(CloseLiteral))
    ELSE LET q == IF FindFrom(s, Chars("<"), p + 1) = 0 THEN Len(s) + 1
                  ELSE FindFrom(s, Chars("<"), p + 1)
         IN  SubSeq(s, p, q - 1) \o OutsideFrom(s, q)

OutsideStringContent(s) == OutsideFrom(s, 1)

\* C2: replace_brand_names changes nothing outside the content of the string
\* elements: tags and their attributes, comments and other elements are the
\* same in its result as in its argument.
C2_OnlyStringContentChanges ==
    runs = 1 => OutsideStringContent(output) = OutsideStringContent(input)

\* C3: replace_in_string leaves no "Firefox" in the span, each one having
\* become "Waterfox"; when the span holds "Mozilla Account" every "Mozilla" in
\* it stays, and otherwise every "Mozilla" has become "BrowserWorks"; nothing
\* else changes length, and the tags are returned as they were.
C3_ProtectionRule ==
    runs = 1 =>
      LET span == SpanOf(output)
          protected == Contains(input, MozillaAccount)
          nFirefox == Count(input, Firefox)
          nMozilla == Count(input, Mozilla)
          replaced == IF protected THEN 0 ELSE nMozilla
      IN  /\ IsEntry(output)
          /\ Count(span, Firefox) = 0
          /\ Count(span, Waterfox) = Count(input, Waterfox) + nFirefox
          /\ Count(span, Mozilla) = nMozilla - replaced
          /\ Count(span, BrowserWorks) = Count(input, BrowserWorks) + replaced
          /\ Count(span, MozillaAccount) = Count(input, MozillaAccount)
          /\ Len(span) = Len(input)
                           + nFirefox * (Len(Waterfox) - Len(Firefox))
                           + replaced * (Len(BrowserWorks) - Len(Mozilla))

\* A span with "Firefox", "Mozilla Account" and one more "Mozilla" has been
\* through replace_in_string.
C3_Witness ==
    /\ runs = 1
    /\ Contains(input, Firefox)
    /\ Contains(input, MozillaAccount)
    /\ Count(input, Mozilla) >= 2
    /\ Count(SpanOf(output), Mozilla) >= 2

\* The entries of a text, as the string-entry pattern finds them: their
\* opening tag and their content span.
EntryTag(s, m) == Group1(s, m)
EntryContent(s, m) == Group2(s, m)
TrackersTag == FormatOpenLiteral \o Gt

\* C4: fix_format_specifiers leaves every entry whose name is not exactly
\* trackers_blocked_panel_categorical_num_trackers_blocked as it was.
C4_OtherEntriesUntouched ==
    runs = 1 =>
      LET ins == StringEntries(input)
          outs == StringEntries(output)
      IN  /\ Len(outs) = Len(ins)
          /\ \A k \in 1 .. Len(ins) :
               EntryTag(input, ins[k]) /= TrackersTag =>
                 /\ EntryTag(output, outs[k]) = EntryTag(input, ins[k])
                 /\ EntryContent(output, outs[k]) = EntryContent(input, ins[k])

\* A content span with every '%s' + text without '%' + '%d' in it rewritten to
\* '%1$s' + the same text + '%2$d', and the rest copied.
RECURSIVE RewriteShapesFrom(_, _)
RewriteShapesFrom(c, p) ==
    LET i == FindFrom(c, PercentS, p)
        j == FindFrom(c, Percent, i + Len(PercentS))
    IN  IF i = 0 THEN SubSeq(c, p, Len(c))
        ELSE IF j /= 0 /\ StartsWith(c, j, PercentD)
             THEN SubSeq(c, p, i - 1) \o Chars("%1$s")
                    \o SubSeq(c, i + Len(PercentS), j - 1) \o Chars("%2$d")
                    \o RewriteShapesFrom(c, j + Len(PercentD))
        ELSE SubSeq(c, p, i + Len(PercentS) - 1)
               \o RewriteShapesFrom(c, i + Len(PercentS))

RewriteShapes(c) == RewriteShapesFrom(c, 1)

\* C7: in every entry named trackers_blocked_panel_categorical_num_trackers_blocked
\* fix_format_specifiers rewrites '%s' + text without '%' + '%d' to '%1$s' + the
\* same text + '%2$d', whatever precedes the '%s' or follows the '%d', and
\* leaves the rest of the entry as it was.
C7_ShapeRewritten ==
    runs = 1 =>
      LET ins == StringEntries(input)
          outs == StringEntries(output)
      IN  /\ Len(outs) = Len(ins)
          /\ \A k \in 1 .. Len(ins) :
               EntryTag(input, ins[k]) = TrackersTag =>
                 /\ EntryTag(output, outs[k]) = TrackersTag
                 /\ EntryContent(output, outs[k])
                      = RewriteShapes(EntryContent(input, ins[k]))

\* A text with the escaping backslash of every apostrophe taken away.
Unescaped(s) == StrReplace(s, Chars("\\'"), Chars("'"))

\* C5: fix_apostrophes_in_string changes nothing but apostrophes, each getting
\* at most a backslash before it: every letter keeps its place and its case.
C5_CasePreserved ==
    runs = 1 =>
      /\ IsEntry(output)
      /\ Unescaped(SpanOf(output)) = Unescaped(input)

\* The positions of the apostrophes of s, in order.
ApostrophesOf(s) ==
    LET at == { q \in 1 .. Len(s) : s[q] = "'" }
        nth[k \in 1 .. Cardinality(at)] ==
            CHOOSE q \in at : Cardinality({ r \in at : r < q }) = k - 1
    IN  nth

\* The number of backslashes that stand right before position q of s.
RECURSIVE BackslashesBefore(_, _)
BackslashesBefore(s, q) ==
    IF q > 1 /\ s[q - 1] = "\\" THEN 1 + BackslashesBefore(s, q - 1) ELSE 0

\* C8: one run of the apostrophe rules puts at most one backslash before any
\* apostrophe of the span, also before one that more than one rule matches and
\* before one that was escaped already.
C8_NoDoubleEscape ==
    runs = 1 =>
      LET span == SpanOf(output)
          ins == ApostrophesOf(input)
          outs == ApostrophesOf(span)
      IN  /\ IsEntry(output)
          /\ Len(outs) = Len(ins)
          /\ Len(span) - Len(input) <= Len(ins)
          /\ \A k \in 1 .. Len(ins) :
               LET before == BackslashesBefore(input, ins[k])
                   after == BackslashesBefore(span, outs[k])
               IN  before <= after /\ after <= before + 1

\* "there's", which the rules for "here's" and for "there's" both match, has
\* been escaped.
C8_Witness ==
    /\ runs = 1
    /\ Contains(LowerText(input), Chars("there's"))
    /\ Contains(LowerText(SpanOf(output)), Chars("there\\'s"))

\* The number of calls of process_file in which no exception was raised.
Unfailed == Cardinality({ k \in 1 .. Len(raised) : raised[k] = "none" })

\* C6: process_file is called on the files in the order of the list, once
\* each; an I/O or encoding error in one call is caught, the program goes on
\* to the next file, and at the end every file has been processed and
\* success_count is the number of calls that did not fail.
C6_FailureContained ==
    /\ Len(calls) = idx
    /\ calls = SubSeq(files, 1, idx)
    /\ success_count \in 0 .. Len(files)
    /\ pc = "crashed" =>
         raised[Len(raised)] \notin (ReadErrors \cup WriteErrors)
    /\ pc \in { "except", "returned" } \/ (pc = "loop" /\ idx < Len(files)) =>
         ENABLED Next
    /\ pc = "loop" => success_count = Unfailed
    /\ pc = "done" /\ files /= << >> =>
         /\ calls = files
         /\ Len(returns) = Len(files)
         /\ success_count = Unfailed
         /\ \A k \in 1 .. Len(files) : returns[k] = (raised[k] = "none")

\* The run ended after the first file failed and the second was processed.
C6_Witness ==
    /\ pc = "done"
    /\ Len(files) = 2
    /\ raised[1] \in ReadErrors
    /\ returns = << FALSE, TRUE >>
    /\ success_count = 1

\* C9: a file is opened for writing only after it was read and the four passes
\* are done, and at most once; when reading or a pass fails the file holds
\* what it held before and process_file returns False.
C9_UnchangedOnFailure ==
    /\ \A f \in DOMAIN wopens : wopens[f] <= 1
    /\ pc \in { "read", "brand", "format", "apos", "cleanup", "open_w" } =>
         /\ wopens[file_path] = 0
         /\ disk[file_path] = disk0[file_path]
    /\ pc = "write" => content = transform(disk0[file_path])
    /\ \A k \in 1 .. Len(raised) :
         raised[k] \in ({ "UnicodeDecodeError" } \cup PassErrors) =>
           wopens[calls[k]] = 0
    /\ \A k \in 1 .. Len(raised) :
         raised[k] /= "none" /\ wopens[calls[k]] = 0 =>
           disk[calls[k]] = disk0[calls[k]]
    /\ \A k \in 1 .. Len(returns) :
         wopens[calls[k]] = 0 => returns[k] = FALSE

\* process_file has returned False for a file that could not be read.
C9_Witness ==
    \E k \in 1 .. Len(returns) :
      /\ raised[k] = "UnicodeDecodeError"
      /\ returns[k] = FALSE
      /\ disk[calls[k]] = disk0[calls[k]]
      /\ disk0[calls[k]] /= << >>

\* C10: the text process_file writes back holds no '">>'.
C10_NoArtifactLeft == runs >= 1 => ~Contains(output, Chars("\">>"))

====
